---- MODULE Spec2Model ----
(***************************************************************************)
(* The pooled IPC client (atoms/ipc_client/client.rs) and the batch delay  *)
(* tester built on it (molecules/delay_testing/tester.rs).                 *)
(*                                                                         *)
(* A probe is one run of test_single_node.  Probes 1..n are the futures    *)
(* that buffer_unordered drives for the n targets of one batch request;    *)
(* the probe in Singles is a single-target request, in a task of its own. *)
(* A step of a probe is the code between two suspension points (.await);   *)
(* the pool lock is a variable of its own, so that "who holds the lock     *)
(* while doing what" is visible in the state.                              *)
(*                                                                         *)
(* Spec is the batch engine over the pool.  SpecPool is the pool under a   *)
(* single-target request, the clock, and releases by the process's other   *)
(* request tasks, started either empty or holding MAX_POOL_SIZE idle       *)
(* streams (31 requests in flight at once, 30 of them finished).           *)
(*                                                                         *)
(* SpecPool also runs a one-shot get (request: connect, write, read).       *)
(* SpecClassify applies get, get_with_pool and test_single_node to every   *)
(* result a request can come to.  SpecCodec is read_http_response from the *)
(* parsed header lines on, over streams that the peer closes.              *)
(*                                                                         *)
(* The peer's answers are drawn from small sets: the probe read on an idle *)
(* stream from ProbeReads, a parsed response from Responses.  TLC's        *)
(* integers are 32 bits wide, so an i64 is kept as its words (I64).        *)
(***************************************************************************)
EXTENDS Integers, Sequences, FiniteSets, TLC

\* ------------------------------------------------------------------ bounds
MaxTargets == 3          \* longest node_names list of a batch request
MaxConc == 3             \* largest requested concurrency
MaxTicks == 2            \* how far the clock runs, in ticks of TickMs
MaxOtherReleases == 1    \* release_connection calls made by tasks not modelled
MaxHeaderLines == 3      \* most header lines of a response, after the status line

\* ------------------------------------------------------- program constants
MAX_POOL_SIZE == 30
IDLE_TIMEOUT_MS == 35000
HTTP_OK_LOW == 200
HTTP_OK_HIGH == 300
PIPE_RETRIES == 20           \* for retry in 0..20
ERROR_PIPE_BUSY == 231       \* e.raw_os_error() == Some(231)
BACKOFF_MS == 15             \* Duration::from_millis(15 * (retry + 1))

TickMs == IDLE_TIMEOUT_MS    \* one tick of the model's clock, in milliseconds

NoTask == -1             \* nobody holds the pool lock
NoConn == 0              \* a probe that owns no stream

Positions == 1 .. MaxTargets
Singles == {0}
Probes == Singles \cup Positions

Min(a, b) == IF a < b THEN a ELSE b
Max(a, b) == IF a > b THEN a ELSE b

\* ------------------------------------------------------------------- peer
\* What conn.try_read(&mut buf) can report on an idle stream.
ProbeReads == {"WouldBlock", "Ok0", "Ok1", "ErrOther"}

\* An i64 as its words: d = h * 2^32 + m * 2^16 + l, with h the signed high
\* 32 bits and m, l the two low 16-bit words (0 .. 65535).
I64(n) ==
    IF n >= 0
    THEN [h |-> 0, m |-> n \div 65536, l |-> n % 65536]
    ELSE [h |-> 0 - 1, m |-> 65535 - ((0 - (n + 1)) \div 65536),
          l |-> 65535 - ((0 - (n + 1)) % 65536)]

\* The JSON `delay` values the peer answers with (i64).
DelayValues == {I64(0), I64(25)}

NoBody == [kind |-> "none", delay |-> I64(0)]
Bodies == {[kind |-> "delay", delay |-> d] : d \in DelayValues}

\* IpcHttpResponse {status_code, body}
Responses == {[status_code |-> 200, body |-> b] : b \in Bodies}
               \cup {[status_code |-> s, body |-> NoBody] : s \in {404}}
NoResp == [status_code |-> 0, body |-> NoBody]

\* The JSON `delay` values of the bodies test_single_node is applied to: small
\* ones of either sign, the ends of the i32 range, and values beyond it
\* (2^31, 2^32 + 25, -2^31 - 1, 2^63 - 1, -2^63).
WideDelayValues ==
    {I64(0), I64(1), I64(25), I64(0 - 1), I64(0 - 3), I64(2147483647),
     I64(0 - 2147483647), [h |-> 0 - 1, m |-> 32768, l |-> 0],
     [h |-> 0, m |-> 32768, l |-> 0], [h |-> 1, m |-> 0, l |-> 25],
     [h |-> 0 - 2, m |-> 65535, l |-> 65535],
     [h |-> 2147483647, m |-> 65535, l |-> 65535],
     [h |-> 0 - 2147483647 - 1, m |-> 0, l |-> 0]}

\* Bodies of other shapes: `delay` beyond i64 (a u64), a float, a string, no
\* `delay` member, not JSON.
OtherBodyKinds == {"u64", "float", "string", "missing", "invalid"}
WideBodies == {[kind |-> "delay", delay |-> d] : d \in WideDelayValues}
                \cup {[kind |-> k, delay |-> I64(0)] : k \in OtherBodyKinds}

\* Status codes (u16) around the ends of the 2xx range, and others.
StatusCodes == {0, 100, 199, 200, 204, 299, 300, 404, 500, 503, 504, 5030, 65535}
WideResponses == {[status_code |-> c, body |-> b] : c \in StatusCodes, b \in WideBodies}

\* Strings are sequences of characters.
DigitChars == <<"0", "1", "2", "3", "4", "5", "6", "7", "8", "9">>
HttpPrefix == <<"H", "T", "T", "P", " ">>
NoErr == << >>
\* The errors of connect, write_all and read_http_response (short stand-ins
\* for the messages, which never hold "HTTP").
ConnectErr == <<"c", "o", "n", "n", "e", "c", "t">>
WriteErr == <<"s", "e", "n", "d">>
ReadErrs == {<<"r", "e", "a", "d">>, <<"c", "l", "o", "s", "e", "d">>}
RequestErrs == {ConnectErr, WriteErr} \cup ReadErrs

\* What request / request_with_pool return: Err(e) or Ok(response).
Failed(e) == [tag |-> "err", resp |-> NoResp, err |-> e]
Answered(r) == [tag |-> "resp", resp |-> r, err |-> NoErr]
TimedOut == [tag |-> "elapsed", resp |-> NoResp, err |-> NoErr]
RequestResults == {Failed(e) : e \in RequestErrs} \cup {Answered(r) : r \in WideResponses}
\* What tokio::time::timeout(.., get_with_pool) is applied to: a request's
\* result, or a call still pending when the time is up.
ProbeOutcomes == RequestResults \cup {TimedOut}

\* Header lines as read_line returns them.
LineContentLength2 == <<"C", "o", "n", "t", "e", "n", "t", "-", "L", "e", "n", "g", "t",
    "h", ":", " ", "2", "\r", "\n">>
LineContentLength5 == <<"C", "O", "N", "T", "E", "N", "T", "-", "L", "E", "N", "G", "T",
    "H", " ", ":", " ", "+", "5", " ", "\r", "\n">>
LineContentLengthBad == <<"c", "o", "n", "t", "e", "n", "t", "-", "l", "e", "n", "g",
    "t", "h", ":", " ", "a", "b", "c", "\r", "\n">>
LineContentLengthNeg == <<"C", "o", "n", "t", "e", "n", "t", "-", "L", "e", "n", "g",
    "t", "h", ":", " ", "-", "1", "\r", "\n">>
LineChunked == <<"T", "r", "a", "n", "s", "f", "e", "r", "-", "E", "n", "c", "o", "d",
    "i", "n", "g", ":", " ", "c", "h", "u", "n", "k", "e", "d", "\r", "\n">>
LineGzipChunked == <<"t", "r", "a", "n", "s", "f", "e", "r", "-", "e", "n", "c", "o",
    "d", "i", "n", "g", ":", "g", "z", "i", "p", ",", " ", "c", "h", "u", "n", "k", "e",
    "d", "\r", "\n">>
LineIdentity == <<"T", "r", "a", "n", "s", "f", "e", "r", "-", "E", "n", "c", "o", "d",
    "i", "n", "g", ":", " ", "i", "d", "e", "n", "t", "i", "t", "y", "\r", "\n">>
LineNoColon == <<"g", "a", "r", "b", "a", "g", "e", "\r", "\n">>
HeaderLines == {LineContentLength2, LineContentLength5, LineContentLengthBad,
                LineContentLengthNeg, LineChunked, LineGzipChunked, LineIdentity,
                LineNoColon}

\* The header_lines[1..] of a response: up to MaxHeaderLines lines.
RECURSIVE SeqsUpTo(_, _)
SeqsUpTo(S, n) ==
    IF n = 0 THEN {<< >>}
    ELSE SeqsUpTo(S, n - 1)
           \cup {Append(q, x) : q \in {r \in SeqsUpTo(S, n - 1) : Len(r) = n - 1}, x \in S}
HeaderInputs == SeqsUpTo(HeaderLines, MaxHeaderLines)

\* What a peer sends after the header before it closes the stream: chunked
\* bodies, cut off at every place, and malformed ones.
WireTwoChunks == <<"2", "\r", "\n", "a", "b", "\r", "\n", "1", "\r", "\n", "c", "\r",
    "\n", "0", "\r", "\n", "\r", "\n">>
WireBlankThenChunk == <<"\r", "\n", " ", "1", " ", "\r", "\n", "c", "\r", "\n", "0",
    "\r", "\n">>
WireBadSize == <<"2", "\r", "\n", "a", "b", "\r", "\n", "z", "z", "\r", "\n">>
WireUpperHex == <<"A", "\r", "\n", "0", "1", "2", "3", "4", "5", "6", "7", "8", "9",
    "\r", "\n", "0", "\r", "\n", "\r", "\n">>
Prefixes(w) == {SubSeq(w, 1, n) : n \in 0 .. Len(w)}
WireInputs == Prefixes(WireTwoChunks) \cup {WireBlankThenChunk, WireBadSize, WireUpperHex}

\* OS errors of opening the pipe: busy (231), and file not found (2), access
\* denied (5), a semaphore timeout (121).
OsErrors == {ERROR_PIPE_BUSY, 2, 5, 121}

\* node_names of a batch request with n targets: "a", "b", "a", ...
NodeNameAt(i) == IF i % 2 = 1 THEN "a" ELSE "b"
NodeNames(n) == [i \in 1 .. n |-> NodeNameAt(i)]

VARIABLES
    now,                \* the clock, in ticks
    pool,               \* IPC_CONNECTION_POOL: Seq of [conn, last_used]
    lock,               \* the task holding the pool's Mutex, or NoTask
    nextConn,           \* the next stream a connect opens
    pc,                 \* where each probe is
    conn,               \* the stream each probe owns
    acq,                \* the pool entry the probe's acquire examined last
    resp,               \* the response a probe carries through release
    dropped,            \* streams dropped so far: [conn, why]
    otherReleases,      \* releases made so far by tasks not modelled
    bst,                \* the batch request: "idle", "running", "done"
    node_names,         \* request.node_names
    concurrency,        \* request.concurrency
    total_count,        \* node_names.len() as u32
    actual_concurrency, \* what buffer_unordered is given
    nextIdx,            \* the next input position the stream hands out
    results,            \* what collect() has gathered, in completion order
    events,             \* the batch's signals to Dart, in emission order
    singleResult,       \* the single-target requests' signals
    attempts,           \* per probe and call: connects and writes made so far
    once,               \* a one-shot IpcClient::get call (no pooling)
    cls,                \* one application of get, get_with_pool or test_single_node
    headers,            \* header_lines[1..] of the response being parsed
    wire,               \* what the peer sent after the header and has not been read
    rd,                 \* read_http_response: where it is and what it has so far
    pipe                \* one call of connect on the named-pipe platform

engineVars == <<now, pool, lock, nextConn, pc, conn, acq, resp, dropped, otherReleases,
                bst, node_names, concurrency, total_count, actual_concurrency, nextIdx,
                results, events, singleResult, attempts>>

codecVars == <<headers, wire, rd>>

vars == <<engineVars, once, cls, codecVars, pipe>>

otherVars == <<once, cls, codecVars, pipe>>

poolVars == <<pool, lock, nextConn, conn, acq, resp, dropped, attempts>>
batchVars == <<bst, node_names, concurrency, total_count, actual_concurrency, nextIdx>>

NoAcq == [src |-> "none", conn |-> NoConn, age_ms |-> 0, read |-> "none"]
NoAttempts == [connects |-> 0, writes |-> 0]
NoRes == [ok |-> FALSE, body |-> NoBody, err |-> NoErr]
OnceIdle == [pc |-> "idle", connects |-> 0, writes |-> 0, res |-> NoRes]
ClsIdle == [fn |-> "none", input |-> TimedOut, res |-> NoRes, delay_ms |-> 0]
None == [some |-> FALSE, val |-> 0]
Some(n) == [some |-> TRUE, val |-> n]
NoOsError == 0
PipeIdle == [pc |-> "idle", retry |-> 0, last_err |-> NoOsError, outcomes |-> << >>,
             sleeps |-> << >>, is_ok |-> FALSE, err |-> NoOsError]
RdIdle == [pc |-> "idle", content_length |-> None, is_chunked |-> FALSE,
           body |-> << >>, err |-> "", turn |-> 0]

\* ------------------------------------------------------- pure functions
\* i64 `as i32`: keeps the low 32 bits, two's complement.
AsI32(d) == (IF d.m >= 32768 THEN d.m - 65536 ELSE d.m) * 65536 + d.l

\* Mutant: a stream with unread bytes counts as valid (Ok(_) => true).
IsValidWithStrayData(read) == read \in {"WouldBlock", "Ok1"}

\* PooledConnection::is_valid: only "would block" is a live, clean stream.
IsValid(read) == read = "WouldBlock"

\* pooled.last_used.elapsed(), in milliseconds.
Elapsed(e) == (now - e.last_used) * TickMs

\* Mutant: the age of the entry is not looked at.
AcceptPooledAnyAge(age_ms, read) == IsValid(read)

\* acquire_connection's test on a popped entry.
AcceptPooled(age_ms, read) == age_ms < IDLE_TIMEOUT_MS /\ IsValid(read)

\* Mutant: the capacity test off by one (<= for <).
ReleaseConnectionOffByOne(q, c, t) ==
    IF Len(q) <= MAX_POOL_SIZE THEN Append(q, [conn |-> c, last_used |-> t]) ELSE q

\* release_connection's body, under the lock: the pool afterwards.
ReleaseConnection(q, c, t) ==
    IF Len(q) < MAX_POOL_SIZE THEN Append(q, [conn |-> c, last_used |-> t]) ELSE q

\* Mutant: the front entry is read but left in the pool.
PopFrontPeek(q) == q

\* pool.pop_front(): what stays in the pool.
PopFrontRest(q) == Tail(q)

\* Mutant: a cancelled request hands its stream back to the pool.
PoolAfterCancelReturns(q, c, t) == Append(q, [conn |-> c, last_used |-> t])

\* A future dropped while it owns a stream: the stream closes, the pool is
\* not touched.
PoolAfterCancel(q, c, t) == q

\* Mutant: the stream is released whatever send_request returned.
ShouldReleaseAlways(is_ok) == TRUE

\* request_with_pool: `if response.is_ok()`.
ShouldRelease(is_ok) == is_ok

\* Display for an unsigned integer: its decimal digits.
RECURSIVE Decimal(_)
Decimal(n) ==
    IF n < 10 THEN <<DigitChars[n + 1]>>
    ELSE Append(Decimal(n \div 10), DigitChars[(n % 10) + 1])

\* format!("HTTP {}", status_code)
HttpError(status_code) == HttpPrefix \o Decimal(status_code)

\* str::contains
Contains(s, pat) ==
    \E i \in 0 .. (Len(s) - Len(pat)) : SubSeq(s, i + 1, i + Len(pat)) = pat

\* Mutant: 300 counts as a success (<= for <).
GetThrough300(r) ==
    IF r.status_code >= HTTP_OK_LOW /\ r.status_code <= HTTP_OK_HIGH
    THEN [ok |-> TRUE, body |-> r.body, err |-> NoErr]
    ELSE [ok |-> FALSE, body |-> NoBody, err |-> HttpError(r.status_code)]

\* get over an Ok(response): the body, or Err("HTTP <code>").
Get(r) ==
    IF r.status_code >= HTTP_OK_LOW /\ r.status_code < HTTP_OK_HIGH
    THEN [ok |-> TRUE, body |-> r.body, err |-> NoErr]
    ELSE [ok |-> FALSE, body |-> NoBody, err |-> HttpError(r.status_code)]

\* get_with_pool over an Ok(response): the body, or Err("HTTP <code>").
GetWithPool(r) ==
    IF r.status_code >= HTTP_OK_LOW /\ r.status_code < HTTP_OK_HIGH
    THEN [ok |-> TRUE, body |-> r.body, err |-> NoErr]
    ELSE [ok |-> FALSE, body |-> NoBody, err |-> HttpError(r.status_code)]

\* The `?` of get and get_with_pool: a request's error is returned as it is.
Propagate(o, g) == IF o.tag = "err" THEN [ok |-> FALSE, body |-> NoBody, err |-> o.err] ELSE g

\* Mutant: a timeout is reported as the time waited, like a measured delay.
TimeoutResultElapsed == (now + 1) * TickMs

\* timeout_result: logs and returns -1.
TimeoutResult == 0 - 1

\* Mutant: a negative delay of the peer is reported as the failure value.
ClassifyBodyClamped(b) ==
    IF b.kind = "delay" /\ AsI32(b.delay) >= 0 THEN AsI32(b.delay) ELSE 0 - 1

\* test_single_node's match on the body of a 2xx answer: serde_json parses
\* it, get("delay") and as_i64 give the integer, `as i32` the result.
ClassifyBody(b) == IF b.kind = "delay" THEN AsI32(b.delay) ELSE 0 - 1

\* test_single_node's match on Err(e) of get_with_pool.
ClassifyError(e) ==
    IF Contains(e, HttpPrefix \o <<"5", "0", "3">>)
       \/ Contains(e, HttpPrefix \o <<"5", "0", "4">>)
    THEN TimeoutResult
    ELSE 0 - 1

\* test_single_node's match on what get_with_pool made of a response.
ClassifyResponse(r) ==
    LET g == GetWithPool(r)
    IN  IF g.ok THEN ClassifyBody(g.body) ELSE ClassifyError(g.err)

\* test_single_node over what the timed get_with_pool came to.
TestSingleNode(o) ==
    IF o.tag = "elapsed" THEN TimeoutResult
    ELSE IF o.tag = "err" THEN ClassifyError(o.err)
    ELSE ClassifyResponse(o.resp)

\* Mutant: the count is clamped like the concurrency (.max(1)).
TotalCountClamped(names) == Max(Len(names), 1)

\* handle_batch_delay_test_request: node_names.len() as u32.
TotalCount(names) == Len(names)

\* Mutant: the requested concurrency is ignored, every target starts at once.
ActualConcurrencyAll(c, n) == Max(n, 1)

\* handle_batch_delay_test_request: the concurrency handed to batch_test_delays.
ActualConcurrency(c, n) == Min(Max(c, 1), Max(n, 1))

\* Mutant: a delay of 0 counts as a success (>= for >).
SuccessCountNonNegative(rs) == Cardinality({i \in 1 .. Len(rs) : rs[i].delay_ms >= 0})

\* results.iter().filter(|r| r.delay_ms > 0).count()
SuccessCount(rs) == Cardinality({i \in 1 .. Len(rs) : rs[i].delay_ms > 0})

\* ------------------------------------------------------------ the codec
\* char::is_whitespace, on the characters that occur.
Whitespace == {" ", "\t", "\r", "\n"}
UpperCase == <<"A", "B", "C", "D", "E", "F", "G", "H", "I", "J", "K", "L", "M",
               "N", "O", "P", "Q", "R", "S", "T", "U", "V", "W", "X", "Y", "Z">>
LowerCase == <<"a", "b", "c", "d", "e", "f", "g", "h", "i", "j", "k", "l", "m",
               "n", "o", "p", "q", "r", "s", "t", "u", "v", "w", "x", "y", "z">>
HexChars == <<"0", "1", "2", "3", "4", "5", "6", "7", "8", "9",
              "a", "b", "c", "d", "e", "f">>

\* u8::to_ascii_lowercase
ToLower(ch) ==
    IF \E i \in 1 .. 26 : UpperCase[i] = ch
    THEN LowerCase[CHOOSE i \in 1 .. 26 : UpperCase[i] = ch]
    ELSE ch

\* str::eq_ignore_ascii_case
EqIgnoreAsciiCase(a, b) ==
    Len(a) = Len(b) /\ \A i \in 1 .. Len(a) : ToLower(a[i]) = ToLower(b[i])

\* str::trim
RECURSIVE TrimStart(_)
TrimStart(s) == IF s # << >> /\ Head(s) \in Whitespace THEN TrimStart(Tail(s)) ELSE s
RECURSIVE TrimEnd(_)
TrimEnd(s) ==
    IF s # << >> /\ s[Len(s)] \in Whitespace
    THEN TrimEnd(SubSeq(s, 1, Len(s) - 1)) ELSE s
Trim(s) == TrimEnd(TrimStart(s))

\* The place of the first occurrence of ch in s, 0 when there is none.
IndexOf(s, ch) ==
    IF \E i \in 1 .. Len(s) : s[i] = ch
    THEN CHOOSE i \in 1 .. Len(s) : s[i] = ch /\ \A j \in 1 .. i - 1 : s[j] # ch
    ELSE 0

\* The number a string of decimal digits spells.
DigitOf(ch) == CHOOSE d \in 0 .. 9 : DigitChars[d + 1] = ch
RECURSIVE DecimalValue(_)
DecimalValue(ds) ==
    IF ds = << >> THEN 0
    ELSE DecimalValue(SubSeq(ds, 1, Len(ds) - 1)) * 10 + DigitOf(ds[Len(ds)])

\* The number a string of hexadecimal digits (of either case) spells.
HexDigitOf(ch) == CHOOSE d \in 0 .. 15 : HexChars[d + 1] = ToLower(ch)
RECURSIVE HexValue(_)
HexValue(ds) ==
    IF ds = << >> THEN 0
    ELSE HexValue(SubSeq(ds, 1, Len(ds) - 1)) * 16 + HexDigitOf(ds[Len(ds)])

\* usize::from_str_radix(s, radix), radix 10 or 16: an optional "+", then at
\* least one digit and nothing else (the inputs stay far below usize::MAX).
FromStrRadix(s, radix) ==
    LET t == IF s # << >> /\ s[1] = "+" THEN Tail(s) ELSE s
        digits == {HexChars[d] : d \in 1 .. radix}
    IN  IF t # << >> /\ \A i \in 1 .. Len(t) : ToLower(t[i]) \in digits
        THEN Some(IF radix = 10 THEN DecimalValue(t) ELSE HexValue(t))
        ELSE None

ContentLengthKey == <<"c", "o", "n", "t", "e", "n", "t", "-", "l", "e", "n", "g", "t", "h">>
TransferEncodingKey ==
    <<"t", "r", "a", "n", "s", "f", "e", "r", "-", "e", "n", "c", "o", "d", "i", "n", "g">>
ChunkedToken == <<"c", "h", "u", "n", "k", "e", "d">>

\* read_http_response, one header line: split_once(':'), trim, the two
\* headers that are recognised.
HeaderStep(acc, line) ==
    LET c == IndexOf(line, ":")
        key == Trim(SubSeq(line, 1, c - 1))
        value == Trim(SubSeq(line, c + 1, Len(line)))
    IN  IF c = 0 THEN acc
        ELSE [content_length |->
                  IF EqIgnoreAsciiCase(key, ContentLengthKey)
                  THEN FromStrRadix(value, 10)
                  ELSE acc.content_length,
              is_chunked |->
                  \/ acc.is_chunked
                  \/ /\ EqIgnoreAsciiCase(key, TransferEncodingKey)
                     /\ Contains(value, ChunkedToken)]

\* read_http_response: the loop over header_lines[1..].
RECURSIVE ParseHeaders(_)
ParseHeaders(lines) ==
    IF lines = << >> THEN [content_length |-> None, is_chunked |-> FALSE]
    ELSE HeaderStep(ParseHeaders(SubSeq(lines, 1, Len(lines) - 1)), lines[Len(lines)])

\* Mutant: a parsed Content-Length is looked at before the chunked flag.
FramingLengthFirst(h) ==
    IF h.content_length.some THEN [mode |-> "length", length |-> h.content_length.val]
    ELSE IF h.is_chunked THEN [mode |-> "chunked", length |-> 0]
    ELSE [mode |-> "close", length |-> 0]

\* read_http_response: which way the body is read.
Framing(h) ==
    IF h.is_chunked THEN [mode |-> "chunked", length |-> 0]
    ELSE IF h.content_length.some THEN [mode |-> "length", length |-> h.content_length.val]
    ELSE [mode |-> "close", length |-> 0]

\* AsyncBufReadExt::read_line on what is left of a stream the peer has
\* closed: up to and including the first "\n", or all of it (nothing at EOF).
ReadLine(w) == IF IndexOf(w, "\n") = 0 THEN w ELSE SubSeq(w, 1, IndexOf(w, "\n"))
After(w, n) == SubSeq(w, n + 1, Len(w))

\* Mutant: the summary reports failure when no probe succeeded.
CompletionIsSuccessfulIfAny(rs) == SuccessCount(rs) > 0

\* BatchDelayTestComplete's is_successful: the literal `true`.
CompletionIsSuccessful(rs) == TRUE

\* BatchDelayTestComplete's error_message: the literal `None`.
CompletionErrorMessage(rs) == "None"

\* ------------------------------------------------------------ the batch
InFlight == {p \in Positions : pc[p] \notin {"idle", "done"}}

\* Mutant: waves; a new group of `concurrency` targets starts only when the
\* group before it has finished.
CanDispatchWave ==
    /\ Cardinality(InFlight) < actual_concurrency
    /\ (nextIdx - 1) % actual_concurrency = 0 => InFlight = {}

\* buffer_unordered pulls the next future while fewer than `concurrency` run.
CanDispatch == Cardinality(InFlight) < actual_concurrency

\* Mutant: the targets are handed out from the end of the list.
NextTargetReversed == Len(node_names) + 1 - nextIdx

\* stream::iter(node_names).enumerate(): the position handed out next.
NextTarget == nextIdx

\* Mutant: the batch ends once every target was handed out.
BatchExhaustedEarly == nextIdx > Len(node_names)

\* collect() ends when the stream is exhausted and nothing is in progress.
BatchExhausted == nextIdx > Len(node_names) /\ InFlight = {}

\* Mutant: the progress closure reports the first target's name.
ProgressNameFirst(p) == node_names[1]

\* The node_name the closure of position p moved in (enumerate's pair).
ProgressName(p) == node_names[p]

\* The probe returned delay_ms: the signal, and for a batch position the result.
Finish(p, delay_ms) ==
    /\ pc' = [pc EXCEPT ![p] = "done"]
    /\ conn' = [conn EXCEPT ![p] = NoConn]
    /\ acq' = [acq EXCEPT ![p] = NoAcq]
    /\ resp' = [resp EXCEPT ![p] = NoResp]
    /\ attempts' = [attempts EXCEPT ![p] = NoAttempts]
    /\ IF p \in Singles
       THEN /\ singleResult' = [singleResult EXCEPT ![p] = <<[delay_ms |-> delay_ms]>>]
            /\ UNCHANGED <<results, events>>
       ELSE /\ events' = Append(events, [type |-> "progress", pos |-> p,
                                         node_name |-> ProgressName(p),
                                         delay_ms |-> delay_ms,
                                         total_count |-> 0, success_count |-> 0,
                                         is_successful |-> TRUE, error_message |-> "None"])
            /\ results' = Append(results, [node_name |-> node_names[p],
                                           delay_ms |-> delay_ms])
            /\ UNCHANGED singleResult

\* Nothing has been asked of the engine yet.
EngineIdle ==
    /\ now = 0
    /\ pool = << >>
    /\ lock = NoTask
    /\ nextConn = 1
    /\ pc = [p \in Probes |-> "idle"]
    /\ conn = [p \in Probes |-> NoConn]
    /\ acq = [p \in Probes |-> NoAcq]
    /\ resp = [p \in Probes |-> NoResp]
    /\ dropped = {}
    /\ otherReleases = 0
    /\ bst = "idle"
    /\ node_names = << >>
    /\ concurrency = 0
    /\ total_count = 0
    /\ actual_concurrency = 0
    /\ nextIdx = 1
    /\ results = << >>
    /\ events = << >>
    /\ singleResult = [s \in Singles |-> << >>]
    /\ attempts = [p \in Probes |-> NoAttempts]
    /\ once = OnceIdle
    /\ cls = ClsIdle

\* read_http_response is handed the header lines of a response, and the
\* stream holds what the peer sent after them.
InitCodec ==
    /\ EngineIdle
    /\ headers \in HeaderInputs
    /\ wire \in WireInputs
    /\ rd = RdIdle
    /\ pipe = PipeIdle

Init ==
    /\ now = 0
    /\ pool = << >>
    /\ lock = NoTask
    /\ nextConn = 1
    /\ pc = [p \in Probes |-> "idle"]
    /\ conn = [p \in Probes |-> NoConn]
    /\ acq = [p \in Probes |-> NoAcq]
    /\ resp = [p \in Probes |-> NoResp]
    /\ dropped = {}
    /\ otherReleases = 0
    /\ bst = "idle"
    /\ node_names = << >>
    /\ concurrency = 0
    /\ total_count = 0
    /\ actual_concurrency = 0
    /\ nextIdx = 1
    /\ results = << >>
    /\ events = << >>
    /\ singleResult = [s \in Singles |-> << >>]
    /\ attempts = [p \in Probes |-> NoAttempts]
    /\ once = OnceIdle
    /\ cls = ClsIdle
    /\ headers = << >>
    /\ wire = << >>
    /\ rd = RdIdle
    /\ pipe = PipeIdle

\* The pool after MAX_POOL_SIZE earlier requests released their streams.
FullPool == [i \in 1 .. MAX_POOL_SIZE |-> [conn |-> i, last_used |-> 0]]

InitPool ==
    /\ now = 0
    /\ \/ pool = << >> /\ nextConn = 1
       \/ pool = FullPool /\ nextConn = MAX_POOL_SIZE + 1
    /\ lock = NoTask
    /\ pc = [p \in Probes |-> "idle"]
    /\ conn = [p \in Probes |-> NoConn]
    /\ acq = [p \in Probes |-> NoAcq]
    /\ resp = [p \in Probes |-> NoResp]
    /\ dropped = {}
    /\ otherReleases = 0
    /\ bst = "idle"
    /\ node_names = << >>
    /\ concurrency = 0
    /\ total_count = 0
    /\ actual_concurrency = 0
    /\ nextIdx = 1
    /\ results = << >>
    /\ events = << >>
    /\ singleResult = [s \in Singles |-> << >>]
    /\ attempts = [p \in Probes |-> NoAttempts]
    /\ once = OnceIdle
    /\ cls = ClsIdle
    /\ headers = << >>
    /\ wire = << >>
    /\ rd = RdIdle
    /\ pipe = PipeIdle

\* handle_single_delay_test_request starts its probe.
ReceiveSingle(s) ==
    /\ pc[s] = "idle"
    /\ pc' = [pc EXCEPT ![s] = "acq_lock"]
    /\ UNCHANGED <<now, poolVars, otherReleases, batchVars, results, events, singleResult>>
    /\ UNCHANGED otherVars

\* handle_batch_delay_test_request up to the call of batch_test_delays.
ReceiveBatch(n, c) ==
    /\ bst = "idle"
    /\ bst' = "running"
    /\ node_names' = NodeNames(n)
    /\ concurrency' = c
    /\ total_count' = TotalCount(NodeNames(n))
    /\ actual_concurrency' = ActualConcurrency(c, n)
    /\ UNCHANGED <<now, poolVars, pc, otherReleases, nextIdx, results, events, singleResult>>
    /\ UNCHANGED otherVars

\* buffer_unordered takes the next target from the stream and polls it up to
\* its first suspension point, pool.lock().await.
Dispatch ==
    /\ bst = "running"
    /\ nextIdx <= Len(node_names)
    /\ CanDispatch
    /\ pc' = [pc EXCEPT ![NextTarget] = "acq_lock"]
    /\ nextIdx' = nextIdx + 1
    /\ UNCHANGED <<now, poolVars, otherReleases, bst, node_names, concurrency,
                   total_count, actual_concurrency, results, events, singleResult>>
    /\ UNCHANGED otherVars

\* batch_test_delays returns (at once for an empty list); the handler counts
\* the successes and sends BatchDelayTestComplete.
BatchComplete ==
    /\ bst = "running"
    /\ node_names = << >> \/ BatchExhausted
    /\ bst' = "done"
    /\ events' = Append(events, [type |-> "complete", pos |-> 0, node_name |-> "",
                                 delay_ms |-> 0,
                                 total_count |-> total_count,
                                 success_count |-> SuccessCount(results),
                                 is_successful |-> CompletionIsSuccessful(results),
                                 error_message |-> CompletionErrorMessage(results)])
    /\ UNCHANGED <<now, poolVars, pc, otherReleases, node_names, concurrency,
                   total_count, actual_concurrency, nextIdx, results, singleResult>>
    /\ UNCHANGED otherVars

\* ------------------------------------------------------------ the probe
\* acquire_connection: IPC_CONNECTION_POOL.lock().await resolves.
AcquireLock(p) ==
    /\ pc[p] = "acq_lock"
    /\ lock = NoTask
    /\ lock' = p
    /\ pc' = [pc EXCEPT ![p] = "acq_pop"]
    /\ UNCHANGED <<now, pool, nextConn, conn, acq, resp, dropped, otherReleases,
                   batchVars, results, events, singleResult, attempts>>
    /\ UNCHANGED otherVars

\* What acquire saw of a popped entry; is_valid runs only on a young entry (&&).
Examined(src, c, age, read) ==
    [src |-> src, conn |-> c, age_ms |-> age,
     read |-> IF age < IDLE_TIMEOUT_MS THEN read ELSE "none"]

\* Mutant: a rejected entry is put back at the end of the pool.
PoolAfterDiscardRequeue(q, e) == Append(q, e)

\* acquire_connection: `continue` drops the rejected entry; the pool is as
\* pop_front left it.
PoolAfterDiscard(q, e) == q

\* Mutant: the guard lives on after the block, through what acquire does next.
LockAfterPopHeld(p) == p

\* acquire_connection: the guard is dropped at the end of the block that pops.
LockAfterPop(p) == NoTask

\* acquire_connection: pop_front under the lock, the guard is dropped, then
\* the entry is examined: returned, or discarded and the loop goes round.
PopFront(p, read) ==
    /\ pc[p] = "acq_pop"
    /\ lock = p
    /\ lock' = LockAfterPop(p)
    /\ IF pool = << >>
       THEN /\ pc' = [pc EXCEPT ![p] = "connecting"]
            /\ UNCHANGED <<pool, conn, acq, dropped>>
       ELSE LET e == Head(pool)
                age == Elapsed(e)
            IN  /\ pool' = IF AcceptPooled(age, read) THEN PopFrontRest(pool)
                            ELSE PoolAfterDiscard(PopFrontRest(pool), e)
                /\ IF AcceptPooled(age, read)
                   THEN /\ pc' = [pc EXCEPT ![p] = "writing"]
                        /\ conn' = [conn EXCEPT ![p] = e.conn]
                        /\ acq' = [acq EXCEPT ![p] = Examined("pool", e.conn, age, read)]
                        /\ UNCHANGED dropped
                   ELSE /\ pc' = [pc EXCEPT ![p] = "acq_lock"]
                        /\ acq' = [acq EXCEPT ![p] = Examined("discard", e.conn, age, read)]
                        /\ dropped' = dropped \cup {[conn |-> e.conn, why |-> "discard"]}
                        /\ UNCHANGED conn
    /\ UNCHANGED <<now, nextConn, resp, otherReleases, batchVars, results, events,
                   singleResult, attempts>>
    /\ UNCHANGED otherVars

\* The stream a failed or abandoned request owned is dropped.
Drop(p, why) ==
    dropped' = IF conn[p] = NoConn THEN dropped
               ELSE dropped \cup {[conn |-> conn[p], why |-> why]}

\* acquire_connection: connect on an empty pool; `?` returns its error.
Connect(p, is_ok) ==
    /\ pc[p] = "connecting"
    /\ IF is_ok
       THEN /\ pc' = [pc EXCEPT ![p] = "writing"]
            /\ conn' = [conn EXCEPT ![p] = nextConn]
            /\ acq' = [acq EXCEPT ![p] = [src |-> "fresh", conn |-> nextConn,
                                          age_ms |-> 0, read |-> "none"]]
            /\ nextConn' = nextConn + 1
            /\ attempts' = [attempts EXCEPT ![p].connects = @ + 1]
            /\ UNCHANGED <<resp, results, events, singleResult>>
       ELSE /\ Finish(p, 0 - 1)
            /\ UNCHANGED nextConn
    /\ UNCHANGED <<now, pool, lock, dropped, otherReleases, batchVars>>
    /\ UNCHANGED otherVars

\* Mutant: a request that failed on a pooled stream is tried again.
RetryAfterFailurePooled(src) == src = "pool"

\* request_with_pool returns send_request's error as it is: nothing is retried.
RetryAfterFailure(src) == FALSE

\* request_with_pool after send_request returned an error; `wrote` is 1 when
\* the failing call was the write.
ExchangeFailed(p, wrote) ==
    /\ Drop(p, "failed")
    /\ IF ShouldRelease(FALSE)
       THEN /\ pc' = [pc EXCEPT ![p] = "rel_lock"]
            /\ attempts' = [attempts EXCEPT ![p].writes = @ + wrote]
            /\ UNCHANGED <<conn, acq, resp, results, events, singleResult>>
       ELSE IF RetryAfterFailure(acq[p].src)
       THEN /\ pc' = [pc EXCEPT ![p] = "acq_lock"]
            /\ conn' = [conn EXCEPT ![p] = NoConn]
            /\ attempts' = [attempts EXCEPT ![p].writes = @ + wrote]
            /\ UNCHANGED <<acq, resp, results, events, singleResult>>
       ELSE Finish(p, 0 - 1)

\* send_request: write_all.
Write(p, is_ok) ==
    /\ pc[p] = "writing"
    /\ IF is_ok
       THEN /\ pc' = [pc EXCEPT ![p] = "reading"]
            /\ attempts' = [attempts EXCEPT ![p].writes = @ + 1]
            /\ UNCHANGED <<conn, acq, resp, dropped, results, events, singleResult>>
       ELSE ExchangeFailed(p, 1)
    /\ UNCHANGED <<now, pool, lock, nextConn, otherReleases, batchVars>>
    /\ UNCHANGED otherVars

\* send_request: read_http_response returns a response.
ReadOk(p, r) ==
    /\ pc[p] = "reading"
    /\ IF ShouldRelease(TRUE)
       THEN /\ pc' = [pc EXCEPT ![p] = "rel_lock"]
            /\ resp' = [resp EXCEPT ![p] = r]
            /\ UNCHANGED <<conn, acq, dropped, results, events, singleResult, attempts>>
       ELSE /\ Drop(p, "unreleased")
            /\ Finish(p, ClassifyResponse(r))
    /\ UNCHANGED <<now, pool, lock, nextConn, otherReleases, batchVars>>
    /\ UNCHANGED otherVars

\* send_request: read_http_response returns an error.
ReadErr(p) ==
    /\ pc[p] = "reading"
    /\ ExchangeFailed(p, 0)
    /\ UNCHANGED <<now, pool, lock, nextConn, otherReleases, batchVars>>
    /\ UNCHANGED otherVars

\* release_connection: IPC_CONNECTION_POOL.lock().await resolves.
ReleaseLock(p) ==
    /\ pc[p] = "rel_lock"
    /\ lock = NoTask
    /\ lock' = p
    /\ pc' = [pc EXCEPT ![p] = "rel_push"]
    /\ UNCHANGED <<now, pool, nextConn, conn, acq, resp, dropped, otherReleases,
                   batchVars, results, events, singleResult, attempts>>
    /\ UNCHANGED otherVars

\* release_connection under the lock, then request_with_pool, get_with_pool
\* and test_single_node return (no suspension point is left).
ReleasePush(p) ==
    /\ pc[p] = "rel_push"
    /\ lock = p
    /\ lock' = NoTask
    /\ pool' = ReleaseConnection(pool, conn[p], now)
    /\ dropped' = IF Len(pool') = Len(pool)
                  THEN dropped \cup {[conn |-> conn[p], why |-> "full"]}
                  ELSE dropped
    /\ Finish(p, IF resp[p] = NoResp THEN 0 - 1 ELSE ClassifyResponse(resp[p]))
    /\ UNCHANGED <<now, nextConn, otherReleases, batchVars>>
    /\ UNCHANGED otherVars

\* Mutant: the timer is looked at only while the request waits for the lock.
SuspendedOnLock(p) == pc[p] \in {"acq_lock", "rel_lock"}

\* The places where get_with_pool can be pending when the timer is checked.
Suspended(p) == pc[p] \in {"acq_lock", "connecting", "writing", "reading", "rel_lock"}

\* tokio::time::timeout elapses: the pending future is dropped with what it owns.
Timeout(p) ==
    /\ Suspended(p)
    /\ Drop(p, IF pc[p] = "rel_lock" THEN "timeout_release" ELSE "timeout")
    /\ pool' = IF conn[p] = NoConn THEN pool ELSE PoolAfterCancel(pool, conn[p], now)
    /\ Finish(p, TimeoutResult)
    /\ UNCHANGED <<now, lock, nextConn, otherReleases, batchVars>>
    /\ UNCHANGED otherVars

\* ------------------------------------------------------ the environment
Tick ==
    /\ now < MaxTicks
    /\ now' = now + 1
    /\ UNCHANGED <<poolVars, pc, otherReleases, batchVars, results, events, singleResult>>
    /\ UNCHANGED otherVars

\* Another request task of the process (init spawns one per signal) hands
\* the stream it used to release_connection.
OtherTaskRelease ==
    /\ otherReleases < MaxOtherReleases
    /\ lock = NoTask
    /\ otherReleases' = otherReleases + 1
    /\ pool' = ReleaseConnection(pool, nextConn, now)
    /\ nextConn' = nextConn + 1
    /\ dropped' = IF Len(pool') = Len(pool)
                  THEN dropped \cup {[conn |-> nextConn, why |-> "full"]}
                  ELSE dropped
    /\ UNCHANGED <<now, lock, pc, conn, acq, resp, batchVars, results, events,
                   singleResult, attempts>>
    /\ UNCHANGED otherVars

ProbeStep(p) ==
    \/ AcquireLock(p)
    \/ \E read \in ProbeReads : PopFront(p, read)
    \/ \E is_ok \in BOOLEAN : Connect(p, is_ok)
    \/ \E is_ok \in BOOLEAN : Write(p, is_ok)
    \/ \E r \in Responses : ReadOk(p, r)
    \/ ReadErr(p)
    \/ ReleaseLock(p)
    \/ ReleasePush(p)
    \/ Timeout(p)

\* ------------------------------------------------- the one-shot request
\* get is called: request calls connect.
OnceCall ==
    /\ once.pc = "idle"
    /\ once' = [once EXCEPT !.pc = "connecting"]
    /\ UNCHANGED <<engineVars, cls, codecVars, pipe>>

\* request: connect (one attempt; the `?` returns its error).
OnceConnect(is_ok) ==
    /\ once.pc = "connecting"
    /\ once' = IF is_ok
               THEN [once EXCEPT !.pc = "writing", !.connects = @ + 1]
               ELSE [once EXCEPT !.pc = "done", !.connects = @ + 1,
                                 !.res = Propagate(Failed(ConnectErr), NoRes)]
    /\ UNCHANGED <<engineVars, cls, codecVars, pipe>>

\* send_request: write_all.
OnceWrite(is_ok) ==
    /\ once.pc = "writing"
    /\ once' = IF is_ok
               THEN [once EXCEPT !.pc = "reading", !.writes = @ + 1]
               ELSE [once EXCEPT !.pc = "done", !.writes = @ + 1,
                                 !.res = Propagate(Failed(WriteErr), NoRes)]
    /\ UNCHANGED <<engineVars, cls, codecVars, pipe>>

\* send_request: read_http_response returns; the stream is dropped and get
\* looks at the status code.
OnceRead(o) ==
    /\ once.pc = "reading"
    /\ once' = [once EXCEPT !.pc = "done", !.res = Propagate(o, Get(o.resp))]
    /\ UNCHANGED <<engineVars, cls, codecVars, pipe>>

OnceStep ==
    \/ OnceCall
    \/ \E is_ok \in BOOLEAN : OnceConnect(is_ok)
    \/ \E is_ok \in BOOLEAN : OnceWrite(is_ok)
    \/ \E o \in {Answered(r) : r \in Responses} \cup {Failed(e) : e \in ReadErrs} :
          OnceRead(o)

Next ==
    \/ \E n \in 0 .. MaxTargets, c \in 0 .. MaxConc : ReceiveBatch(n, c)
    \/ Dispatch
    \/ BatchComplete
    \/ \E p \in Positions : ProbeStep(p)
    \/ Tick

Spec == Init /\ [][Next]_vars

\* The runtime goes on polling what can proceed: the handler's task drives
\* buffer_unordered and collect, a probe runs the code between two awaits to
\* its end, and the timer of a probe that stays pending fires. Nothing is
\* assumed of the peer: no read, write or connect has to complete. (One
\* task at a time holds the lock, so one condition covers the holder.)
BatchFairness ==
    /\ WF_vars(Dispatch)
    /\ WF_vars(BatchComplete)
    /\ WF_vars(\E p \in Positions :
                  \/ \E read \in ProbeReads : PopFront(p, read)
                  \/ ReleasePush(p))
    /\ \A p \in Positions : WF_vars(Timeout(p))

SpecLive == Spec /\ BatchFairness

NextPool ==
    \/ \E s \in Singles : ReceiveSingle(s)
    \/ \E s \in Singles : ProbeStep(s)
    \/ OtherTaskRelease
    \/ Tick
    \/ OnceStep

SpecPool == InitPool /\ [][NextPool]_vars

\* The runtime goes on polling a task that can proceed: a request inside
\* acquire_connection takes the free lock, pops, and gets connect's result.
\* Nothing is assumed of the timer or of the peer's answers.
AcquireFairness ==
    \A s \in Singles :
        /\ WF_vars(AcquireLock(s))
        /\ WF_vars(\E read \in ProbeReads : PopFront(s, read))
        /\ WF_vars(\E is_ok \in BOOLEAN : Connect(s, is_ok))

SpecPoolFair == SpecPool /\ AcquireFairness

\* ------------------------------------------------- reading a response
\* read_http_response: the headers are parsed and the framing is chosen.
ParseHead ==
    /\ rd.pc = "idle"
    /\ LET h == ParseHeaders(headers)
       IN  rd' = [rd EXCEPT !.pc = Framing(h).mode,
                            !.content_length = h.content_length,
                            !.is_chunked = h.is_chunked]
    /\ UNCHANGED <<headers, wire>>
    /\ UNCHANGED <<engineVars, once, cls, pipe>>

\* read_chunked_body: one turn of its loop.  The count read_line returns is
\* not looked at, so the end of the stream reads as a blank line.
ChunkStep ==
    /\ rd.pc = "chunked"
    /\ LET size_line == ReadLine(wire)
           w1 == After(wire, Len(size_line))
           trimmed == Trim(size_line)
           chunk_size == FromStrRadix(trimmed, 16)
       IN  IF trimmed = << >>
           THEN /\ rd' = [rd EXCEPT !.turn = 1 - @]
                /\ wire' = w1
           ELSE IF ~chunk_size.some
           THEN /\ rd' = [rd EXCEPT !.pc = "error", !.err = "chunk_size"]
                /\ wire' = w1
           ELSE IF chunk_size.val = 0
           THEN /\ rd' = [rd EXCEPT !.pc = "done"]
                /\ wire' = After(w1, Len(ReadLine(w1)))
           ELSE IF Len(w1) < chunk_size.val
           THEN /\ rd' = [rd EXCEPT !.pc = "error", !.err = "chunk_data"]
                /\ wire' = << >>
           ELSE LET w2 == After(w1, chunk_size.val)
                IN  /\ rd' = [rd EXCEPT !.turn = 1 - @,
                                        !.body = @ \o SubSeq(w1, 1, chunk_size.val)]
                    /\ wire' = After(w2, Len(ReadLine(w2)))
    /\ UNCHANGED headers
    /\ UNCHANGED <<engineVars, once, cls, pipe>>

\* read_http_response: read_exact of content_length bytes.
ReadExact ==
    /\ rd.pc = "length"
    /\ IF Len(wire) >= rd.content_length.val
       THEN /\ rd' = [rd EXCEPT !.pc = "done",
                                !.body = SubSeq(wire, 1, rd.content_length.val)]
            /\ wire' = After(wire, rd.content_length.val)
       ELSE /\ rd' = [rd EXCEPT !.pc = "error", !.err = "body"]
            /\ wire' = << >>
    /\ UNCHANGED headers
    /\ UNCHANGED <<engineVars, once, cls, pipe>>

\* read_http_response: read_to_end returns within the 5 seconds, the peer
\* having closed the stream.
ReadToEnd ==
    /\ rd.pc = "close"
    /\ rd' = [rd EXCEPT !.pc = "done", !.body = wire]
    /\ wire' = << >>
    /\ UNCHANGED headers
    /\ UNCHANGED <<engineVars, once, cls, pipe>>

\* read_http_response: the 5 seconds pass before the peer closes the stream.
ReadToEndTimeout ==
    /\ rd.pc = "close"
    /\ rd' = [rd EXCEPT !.pc = "error", !.err = "timeout"]
    /\ UNCHANGED <<headers, wire>>
    /\ UNCHANGED <<engineVars, once, cls, pipe>>

NextCodec ==
    \/ ParseHead
    \/ ChunkStep
    \/ ReadExact
    \/ ReadToEnd
    \/ ReadToEndTimeout

SpecCodec == InitCodec /\ [][NextCodec]_vars

\* ------------------------------------------- connect over a named pipe
\* Mutant: every error of open is retried.
IsBusyAny(code) == TRUE

\* connect (windows): is_busy.
IsBusy(code) == code = ERROR_PIPE_BUSY

\* connect (windows): the time slept after the attempt numbered retry (from 0).
Backoff(retry) == BACKOFF_MS * (retry + 1)

\* connect (windows) is called.
PipeConnect ==
    /\ pipe.pc = "idle"
    /\ pipe' = [pipe EXCEPT !.pc = "open"]
    /\ UNCHANGED <<engineVars, once, cls, codecVars>>

\* connect (windows): ClientOptions::open returns Ok (code NoOsError) or an
\* OS error; the stream is returned, or the error is kept and, when the pipe
\* is busy, the sleep starts, else the loop is left.
PipeOpen(code) ==
    /\ pipe.pc = "open"
    /\ pipe' =
          IF code = NoOsError
          THEN [pipe EXCEPT !.pc = "done", !.is_ok = TRUE,
                            !.outcomes = Append(@, code)]
          ELSE IF IsBusy(code)
          THEN [pipe EXCEPT !.pc = "sleeping", !.last_err = code,
                            !.outcomes = Append(@, code),
                            !.sleeps = Append(@, Backoff(pipe.retry))]
          ELSE [pipe EXCEPT !.pc = "done", !.last_err = code, !.err = code,
                            !.outcomes = Append(@, code)]
    /\ UNCHANGED <<engineVars, once, cls, codecVars>>

\* connect (windows): the sleep ends and the loop continues, or is exhausted
\* and the last error is returned.
PipeWake ==
    /\ pipe.pc = "sleeping"
    /\ pipe' = IF pipe.retry + 1 < PIPE_RETRIES
               THEN [pipe EXCEPT !.pc = "open", !.retry = @ + 1]
               ELSE [pipe EXCEPT !.pc = "done", !.retry = @ + 1, !.err = pipe.last_err]
    /\ UNCHANGED <<engineVars, once, cls, codecVars>>

NextPipe ==
    \/ PipeConnect
    \/ \E code \in {NoOsError} \cup OsErrors : PipeOpen(code)
    \/ PipeWake

SpecPipe == Init /\ [][NextPipe]_vars

\* ------------------------------------- get, get_with_pool, test_single_node
\* get applied to what request returned.
ApplyGet(o) ==
    /\ cls.fn = "none"
    /\ cls' = [fn |-> "get", input |-> o, res |-> Propagate(o, Get(o.resp)),
               delay_ms |-> 0]
    /\ UNCHANGED <<engineVars, once, codecVars, pipe>>

\* get_with_pool applied to what request_with_pool returned.
ApplyGetWithPool(o) ==
    /\ cls.fn = "none"
    /\ cls' = [fn |-> "get_with_pool", input |-> o,
               res |-> Propagate(o, GetWithPool(o.resp)), delay_ms |-> 0]
    /\ UNCHANGED <<engineVars, once, codecVars, pipe>>

\* test_single_node applied to what the timed get_with_pool came to.
ApplyTestSingleNode(o) ==
    /\ cls.fn = "none"
    /\ cls' = [fn |-> "test_single_node", input |-> o,
               res |-> IF o.tag = "elapsed" THEN NoRes
                       ELSE Propagate(o, GetWithPool(o.resp)),
               delay_ms |-> TestSingleNode(o)]
    /\ UNCHANGED <<engineVars, once, codecVars, pipe>>

NextClassify ==
    \/ \E o \in RequestResults : ApplyGet(o)
    \/ \E o \in RequestResults : ApplyGetWithPool(o)
    \/ \E o \in ProbeOutcomes : ApplyTestSingleNode(o)

SpecClassify == Init /\ [][NextClassify]_vars

\* ------------------------------------------------------------ properties
PoolConns == {pool[i].conn : i \in 1 .. Len(pool)}
Held == {conn[p] : p \in Probes} \ {NoConn}
DroppedConns(why) == {d.conn : d \in {x \in dropped : x.why = why}}
ProgressAt(pos) == {i \in 1 .. Len(events) :
                      events[i].type = "progress" /\ events[i].pos = pos}
Progresses == {i \in 1 .. Len(events) : events[i].type = "progress"}
Completes == {i \in 1 .. Len(events) : events[i].type = "complete"}

\* C1: the idle pool never holds more than MAX_POOL_SIZE (30) entries, and a
\* release_connection that finds it holding 30 leaves it unchanged and drops
\* the released stream.
C1_PoolCapacity ==
    /\ [](Len(pool) <= MAX_POOL_SIZE)
    /\ [][\A p \in Probes :
            (pc[p] = "rel_push" /\ pc'[p] # "rel_push" /\ Len(pool) = MAX_POOL_SIZE)
            => /\ pool' = pool
               /\ conn'[p] = NoConn
               /\ [conn |-> conn[p], why |-> "full"] \in dropped']_vars

\* C1's case: the single-target request released into a full pool.
C1_Witness ==
    /\ Len(pool) = MAX_POOL_SIZE
    /\ pc[0] = "done"
    /\ \E d \in dropped : d.why = "full" /\ d.conn \in 1 .. MAX_POOL_SIZE

\* C2: every stream is in at most one place: an entry of the pool (once), or
\* owned by exactly one probe; no two probes hold the same stream and a held
\* stream is not in the pool.
C2_ExclusiveOwnership ==
    /\ \A p, q \in Probes : (p # q /\ conn[p] # NoConn) => conn[p] # conn[q]
    /\ \A p \in Probes : conn[p] # NoConn => conn[p] \notin PoolConns
    /\ \A i, j \in 1 .. Len(pool) : i # j => pool[i].conn # pool[j].conn

\* C2's case: two probes hold streams at once, one taken from the pool (an
\* earlier probe released it) and one freshly connected.
C2_Witness ==
    \E p, q \in Positions :
        /\ p # q
        /\ conn[p] # NoConn /\ conn[q] # NoConn
        /\ acq[p].src = "pool"
        /\ acq[q].src = "fresh"

\* C3: only a request whose send_request returned Ok reaches
\* release_connection, and a stream whose write or read failed is dropped:
\* it is in no probe's hands and never an entry of the pool afterwards.
C3_FailedNeverPooled ==
    /\ \A p \in Probes : pc[p] \in {"rel_lock", "rel_push"} => resp[p] \in Responses
    /\ \A c \in DroppedConns("failed") : c \notin PoolConns /\ c \notin Held

\* C3's case: one exchange failed and its stream is gone, another succeeded
\* and its stream is back in the pool.
C3_Witness ==
    /\ DroppedConns("failed") # {}
    /\ pool # << >>

\* C4: a stream owned by a request that the per-target timeout abandoned
\* (while writing, reading or waiting for the pool lock to release) is never
\* an entry of the pool afterwards, nor in any probe's hands.
C4_TimedOutNeverPooled ==
    \A c \in DroppedConns("timeout") \cup DroppedConns("timeout_release") :
        c \notin PoolConns /\ c \notin Held

\* C4's case: the timeout fired while the request waited to release its
\* stream, and also in mid-exchange, with other streams idle in the pool.
C4_Witness ==
    /\ DroppedConns("timeout_release") # {}
    /\ DroppedConns("timeout") # {}
    /\ pool # << >>

\* C5: acquire_connection never returns a pooled stream older than
\* IDLE_TIMEOUT_MS (35000 ms) when examined; such an entry leaves the pool
\* and is dropped, and the acquire goes on to the next entry or to connect.
C5_StaleNeverReturned ==
    \A p \in Probes :
        /\ acq[p].src = "pool" => acq[p].age_ms <= IDLE_TIMEOUT_MS
        /\ (acq[p].src = "discard" /\ acq[p].age_ms > IDLE_TIMEOUT_MS)
           => /\ acq[p].conn \notin PoolConns
              /\ acq[p].conn \notin Held
              /\ acq[p].conn \in DroppedConns("discard")
              /\ pc[p] \in {"acq_lock", "acq_pop", "connecting"}

\* C5's case: an entry older than the idle timeout was popped and discarded.
C5_Witness ==
    \E p \in Probes : acq[p].src = "discard" /\ acq[p].age_ms > IDLE_TIMEOUT_MS

\* C6: a pooled stream is returned only if the probe read reported
\* would-block; an entry whose probe read returned 0 bytes, 1 byte or
\* another error is discarded: neither returned nor put back into the pool.
C6_OnlyWouldBlockReturned ==
    \A p \in Probes :
        /\ acq[p].src = "pool" => acq[p].read = "WouldBlock" /\ conn[p] = acq[p].conn
        /\ (acq[p].src = "discard" /\ acq[p].read \in {"Ok0", "Ok1", "ErrOther"})
           => /\ acq[p].conn \notin PoolConns
              /\ acq[p].conn \notin Held
              /\ conn[p] = NoConn

\* C6's case: an entry with stray unread data was popped and discarded, and
\* the acquire fell through to a fresh connect.
C6_Witness ==
    \E p \in Positions :
        /\ acq[p].src = "discard" /\ acq[p].read = "Ok1"
        /\ pc[p] = "connecting"

\* C7: the probes of a batch in flight never number more than
\* min(max(1, c), max(1, n)) for n targets and requested concurrency c.
C7_ConcurrencyBound ==
    bst # "idle" =>
        Cardinality(InFlight) <=
            Min(IF concurrency < 1 THEN 1 ELSE concurrency,
                IF Len(node_names) < 1 THEN 1 ELSE Len(node_names))

\* C7's case: the window is full (2 of 3 targets in flight, concurrency 2)
\* while a target still waits to be dispatched.
C7_Witness ==
    /\ concurrency = 2
    /\ Cardinality(InFlight) = 2
    /\ nextIdx <= Len(node_names)

\* C8: when a batch over n >= 1 targets has finished, exactly n progress
\* events were emitted, exactly one per input position and carrying that
\* position's node name, and the summary's total_count is n.
C8_BatchCompleteness ==
    (bst = "done" /\ Len(node_names) >= 1) =>
        /\ Cardinality(Progresses) = Len(node_names)
        /\ \A pos \in 1 .. Len(node_names) :
              /\ Cardinality(ProgressAt(pos)) = 1
              /\ \A i \in ProgressAt(pos) : events[i].node_name = node_names[pos]
        /\ \A i \in Progresses : events[i].pos \in 1 .. Len(node_names)
        /\ \A i \in Completes : events[i].total_count = Len(node_names)
        /\ Completes # {}

\* C8's case: a batch over three targets finished, the last target first.
C8_Witness ==
    /\ bst = "done"
    /\ Len(node_names) = 3
    /\ events[1].pos = 3

\* C9: the completion event comes after every target's progress event: it
\* is the last event, no progress event follows it, and a batch emits
\* exactly one (none before it is done).
C9_CompletionLast ==
    /\ Cardinality(Completes) = (IF bst = "done" THEN 1 ELSE 0)
    /\ \A i \in Completes :
          /\ i = Len(events)
          /\ \A pos \in 1 .. Len(node_names) : \E j \in ProgressAt(pos) : j < i
          /\ \A pos \in 1 .. Len(node_names) : pc[pos] = "done"

\* C9's case: the completion event was emitted after two progress events.
C9_Witness ==
    /\ Len(events) = 3
    /\ events[3].type = "complete"

\* C10: a batch with empty node_names emits no progress event, starts no
\* probe and touches no stream or pool entry, and emits one completion
\* summary with total_count = 0 and success_count = 0.
C10_EmptyBatch ==
    (bst # "idle" /\ node_names = << >>) =>
        /\ Progresses = {}
        /\ \A p \in Positions : pc[p] = "idle" /\ conn[p] = NoConn
        /\ pool = << >> /\ nextConn = 1 /\ dropped = {} /\ lock = NoTask
        /\ bst = "done" =>
              /\ Len(events) = 1
              /\ events[1].type = "complete"
              /\ events[1].total_count = 0
              /\ events[1].success_count = 0

\* C10's case: the empty batch is done.
C10_Witness ==
    /\ bst = "done"
    /\ node_names = << >>
    /\ Len(events) = 1

\* C11: a probe whose pooled call is still pending when timeout_ms elapses
\* (at whichever suspension point) ends with delay_ms = -1: the step of the
\* timer appends that probe's progress event with -1; and the completion
\* summary counts none of the -1 results in success_count.
C11_TimeoutIsFailure ==
    /\ [][\A p \in Positions :
            Timeout(p) =>
                /\ Len(events') = Len(events) + 1
                /\ events'[Len(events')].type = "progress"
                /\ events'[Len(events')].pos = p
                /\ events'[Len(events')].delay_ms = 0 - 1
                /\ results'[Len(results')].delay_ms = 0 - 1]_vars
    /\ [](\A i \in Completes :
            events[i].success_count
              + Cardinality({j \in Progresses : events[j].delay_ms = 0 - 1})
            <= events[i].total_count)

\* C11's case: a batch of two ended; one probe was cut off by the timer while
\* it owned a stream (which was dropped), the other measured a delay, and the
\* summary counts one success.
C11_Witness ==
    /\ bst = "done"
    /\ Len(node_names) = 2
    /\ \E d \in dropped : d.why = "timeout"
    /\ \E j \in Progresses : events[j].delay_ms = 0 - 1
    /\ \E j \in Progresses : events[j].delay_ms > 0
    /\ \E i \in Completes : events[i].success_count = 1

Is2xx(r) == r.status_code \in 200 .. 299

\* C12: get and get_with_pool, given a response, return its body exactly when
\* the status code is in 200..=299, and otherwise an error that is "HTTP "
\* followed by the decimal digits of exactly that code (404 gives "HTTP 404").
C12_StatusMapping ==
    (cls.fn \in {"get", "get_with_pool"} /\ cls.input.tag = "resp") =>
        LET r == cls.input.resp
            e == cls.res.err
        IN  IF Is2xx(r)
            THEN cls.res.ok /\ cls.res.body = r.body
            ELSE /\ ~cls.res.ok
                 /\ Len(e) > Len(HttpPrefix)
                 /\ SubSeq(e, 1, Len(HttpPrefix)) = HttpPrefix
                 /\ \A i \in Len(HttpPrefix) + 1 .. Len(e) :
                        \E d \in 0 .. 9 : DigitChars[d + 1] = e[i]
                 /\ (e[Len(HttpPrefix) + 1] = "0" => Len(e) = Len(HttpPrefix) + 1)
                 /\ DecimalValue(SubSeq(e, Len(HttpPrefix) + 1, Len(e))) = r.status_code

\* C12's case: the pooled path answered 404 and the caller got "HTTP 404".
C12_Witness ==
    /\ cls.fn = "get_with_pool"
    /\ cls.input.tag = "resp"
    /\ cls.input.resp.status_code = 404
    /\ ~cls.res.ok
    /\ cls.res.err = <<"H", "T", "T", "P", " ", "4", "0", "4">>

\* C13: every batch completion summary has is_successful = true and no
\* error_message, whatever the probes came to.
C13_SummaryAlwaysSuccessful ==
    \A i \in Completes :
        events[i].is_successful = TRUE /\ events[i].error_message = "None"

\* C13's case: a batch of three ended with every probe failed (all -1,
\* success_count = 0) and the summary still says is_successful.
C13_Witness ==
    /\ bst = "done"
    /\ Len(node_names) = 3
    /\ Cardinality(Progresses) = 3
    /\ \A j \in Progresses : events[j].delay_ms = 0 - 1
    /\ \E i \in Completes :
          /\ events[i].success_count = 0
          /\ events[i].total_count = 3
          /\ events[i].is_successful = TRUE

\* The input of test_single_node was a 2xx answer whose body is a JSON object
\* with an i64 `delay`.
DelayAnswered ==
    /\ cls.fn = "test_single_node"
    /\ cls.input.tag = "resp"
    /\ Is2xx(cls.input.resp)
    /\ cls.input.resp.body.kind = "delay"

\* C14 as stated: every delay_ms test_single_node produces is -1 or >= 0.
C14_OnlyMinusOneOrNonNegative ==
    cls.fn = "test_single_node" => (cls.delay_ms = 0 - 1 \/ cls.delay_ms >= 0)

\* C14, amended: every delay_ms test_single_node produces is -1, unless the
\* peer answered 2xx with an integer `delay`: then it is the low 32 bits of
\* that integer as an i32, whatever its sign (so a negative value other than
\* -1 is emitted exactly when the peer's delay casts to it).
C14_MinusOneOrPeerDelay ==
    cls.fn = "test_single_node" =>
        IF DelayAnswered
        THEN /\ I64(cls.delay_ms).m = cls.input.resp.body.delay.m
             /\ I64(cls.delay_ms).l = cls.input.resp.body.delay.l
        ELSE cls.delay_ms = 0 - 1

\* C14's case: the peer answered 200 {"delay": -3} and the probe returned -3.
C14_Witness ==
    /\ DelayAnswered
    /\ cls.input.resp.body.delay = I64(0 - 3)
    /\ cls.delay_ms = 0 - 3

\* C15 as stated: a 2xx body whose `delay` is the integer d makes
\* test_single_node return exactly d, for every i64 d.
C15_DelayVerbatim ==
    DelayAnswered => I64(cls.delay_ms) = cls.input.resp.body.delay

\* C16: one call of request or request_with_pool connects at most once and
\* writes the request at most once; a call that loses a pooled stream while
\* writing or reading ends there with the failure, and no stream is opened.
C16_NoTransparentRetry ==
    /\ [](\A p \in Probes : attempts[p].connects <= 1 /\ attempts[p].writes <= 1)
    /\ [](once.connects <= 1 /\ once.writes <= 1)
    /\ [][\A p \in Singles :
            (acq[p].src = "pool" /\ pc[p] \in {"writing", "reading"}
               /\ conn'[p] # conn[p])
            => /\ pc'[p] = "done"
               /\ singleResult'[p] = <<[delay_ms |-> 0 - 1]>>
               /\ nextConn' = nextConn
               /\ pool' = pool]_vars

\* C16's case: the request took a stream from the full pool, the liveness
\* probe passed, the exchange failed; the call returned the failure, the
\* stream was dropped and no other was opened or taken from the pool.
C16_Witness ==
    /\ pc[0] = "done"
    /\ singleResult[0] = <<[delay_ms |-> 0 - 1]>>
    /\ \E d \in dropped : d.why = "failed" /\ d.conn <= MAX_POOL_SIZE
    /\ Len(pool) = MAX_POOL_SIZE - 1
    /\ nextConn = MAX_POOL_SIZE + 1
    /\ otherReleases = 0

\* C17: whenever a batch has targets left and fewer probes in flight (started
\* and not yet reported) than the effective concurrency, buffer_unordered can
\* take the next target at once, whatever the probes in flight are doing.
C17_SlidingWindow ==
    (/\ bst = "running"
     /\ nextIdx <= total_count
     /\ (nextIdx - 1) - Cardinality(Progresses)
          < Min(Max(concurrency, 1), Max(total_count, 1)))
    => ENABLED Dispatch

\* C17's case: with concurrency 2 of 3 targets, the first probe has finished,
\* the second is still in flight and the third has been started.
C17_Witness ==
    /\ Len(node_names) = 3
    /\ actual_concurrency = 2
    /\ pc[1] = "done"
    /\ pc[2] \notin {"idle", "done"}
    /\ pc[3] \notin {"idle", "done"}

\* C18: probes are started in input order: a later position is never started
\* while an earlier one has not been; each dispatch starts the lowest
\* position not yet started.
C18_StartInInputOrder ==
    /\ [](\A i, j \in 1 .. Len(node_names) :
            (i < j /\ pc[j] # "idle") => pc[i] # "idle")
    /\ [][\A j \in Positions :
            (pc[j] = "idle" /\ pc'[j] # "idle")
            => \A i \in 1 .. j - 1 : pc[i] # "idle"]_vars

\* C18's case: three probes started in input order finished in the reverse
\* order (progress events for positions 3, 2, 1).
C18_Witness ==
    /\ Len(events) >= 3
    /\ events[1].type = "progress" /\ events[1].pos = 3
    /\ events[2].type = "progress" /\ events[2].pos = 2
    /\ events[3].type = "progress" /\ events[3].pos = 1

\* C19 as stated: when the stream has ended while read_chunked_body expects a
\* chunk-size line (no zero-size chunk was read), the decoder's next step ends
\* the decoding with a protocol error.
C19_PrematureCloseIsError ==
    [][(rd.pc = "chunked" /\ wire = << >>) => rd'.pc = "error"]_vars

\* A header line that names Content-Length with a value that does not parse.
UnparsableContentLength(line) ==
    LET c == IndexOf(line, ":")
    IN  /\ c > 0
        /\ EqIgnoreAsciiCase(Trim(SubSeq(line, 1, c - 1)), ContentLengthKey)
        /\ ~FromStrRadix(Trim(SubSeq(line, c + 1, Len(line))), 10).some

Without(q, i) == SubSeq(q, 1, i - 1) \o SubSeq(q, i + 1, Len(q))

\* C20 as stated: the framing read_http_response chose for the header lines
\* is the one it chooses for the same lines with any one unparsable
\* Content-Length line taken out.
C20_UnparsableContentLengthIgnored ==
    rd.pc # "idle" =>
        \A i \in 1 .. Len(headers) :
            UnparsableContentLength(headers[i]) =>
                Framing([content_length |-> rd.content_length,
                         is_chunked |-> rd.is_chunked])
                  = Framing(ParseHeaders(Without(headers, i)))

\* Some header line is Transfer-Encoding with a value that contains "chunked".
HasChunkedHeader ==
    \E i \in 1 .. Len(headers) :
        LET c == IndexOf(headers[i], ":")
        IN  /\ c > 0
            /\ EqIgnoreAsciiCase(Trim(SubSeq(headers[i], 1, c - 1)), TransferEncodingKey)
            /\ Contains(Trim(SubSeq(headers[i], c + 1, Len(headers[i]))), ChunkedToken)

\* C21: the body framing follows a strict priority: the chunked decoder when
\* a Transfer-Encoding header contains "chunked", whether or not a content
\* length was parsed; otherwise exactly content_length bytes when the header
\* loop left one; otherwise everything up to the peer's close, or the timeout
\* error, which no other framing produces.
C21_FramingPriority ==
    /\ [][rd.pc = "idle" =>
            rd'.pc = (IF HasChunkedHeader THEN "chunked"
                      ELSE IF rd'.content_length.some THEN "length"
                      ELSE "close")]_vars
    /\ [][rd.pc = "length" =>
            \/ /\ rd'.pc = "done"
               /\ Len(rd'.body) = rd.content_length.val
               /\ rd'.body = SubSeq(wire, 1, rd.content_length.val)
            \/ /\ rd'.pc = "error"
               /\ rd'.err # "timeout"
               /\ Len(wire) < rd.content_length.val]_vars
    /\ [][rd.pc = "close" =>
            \/ rd'.pc = "done" /\ rd'.body = wire
            \/ rd'.pc = "error" /\ rd'.err = "timeout"]_vars
    /\ [](rd.err = "timeout" => ~rd.is_chunked /\ ~rd.content_length.some)

\* C21's case: the header named both a parsable Content-Length and chunked,
\* and the body was decoded from its chunks.
C21_Witness ==
    /\ rd.is_chunked
    /\ rd.content_length.some
    /\ rd.pc = "done"
    /\ rd.body = <<"a", "b", "c">>

\* C22: connect on the named-pipe platform opens the pipe at most 20 times
\* and goes on to another attempt only after a busy error (231), having slept
\* 15 ms times the number of the attempt just made; a successful open returns
\* at once, any other error is returned at once without a sleep, and after 20
\* busy attempts the error returned carries the last OS error.
C22_PipeBusyRetry ==
    /\ Len(pipe.outcomes) <= PIPE_RETRIES
    /\ \A k \in 1 .. Len(pipe.outcomes) - 1 : pipe.outcomes[k] = 231
    /\ \A k \in 1 .. Len(pipe.sleeps) : pipe.sleeps[k] = 15 * k
    /\ Len(pipe.sleeps)
         = Cardinality({k \in 1 .. Len(pipe.outcomes) : pipe.outcomes[k] = 231})
    /\ pipe.pc = "sleeping" => pipe.outcomes[Len(pipe.outcomes)] = 231
    /\ pipe.pc = "done" =>
          LET last == pipe.outcomes[Len(pipe.outcomes)]
          IN  /\ pipe.is_ok <=> last = NoOsError
              /\ ~pipe.is_ok => pipe.err = last
              /\ last = 231 => Len(pipe.outcomes) = 20
              /\ last # 231 => Len(pipe.sleeps) = Len(pipe.outcomes) - 1

\* C22's case: the pipe was busy 20 times; connect slept 15, 30, ..., 300 ms
\* and returned the busy error.
C22_Witness ==
    /\ pipe.pc = "done"
    /\ ~pipe.is_ok
    /\ pipe.err = 231
    /\ Len(pipe.outcomes) = 20
    /\ Len(pipe.sleeps) = 20
    /\ pipe.sleeps[20] = 300

\* C23: the pool lock is held only by a task that is at its pop (acquire) or
\* at its length check and push (release): never by a task that connects,
\* runs the liveness probe, writes, reads or waits; so while no task is at a
\* pop or push, every task waiting for the lock can take it, however slow the
\* exchanges in flight are.
C23_LockOnlyForPopPush ==
    /\ \A p \in Probes : lock = p => pc[p] \in {"acq_pop", "rel_push"}
    /\ \A p \in Probes :
          pc[p] \in {"acq_lock", "connecting", "writing", "reading", "rel_lock"}
          => lock # p
    /\ (\A q \in Probes : pc[q] \notin {"acq_pop", "rel_push"}) =>
          \A p \in Probes :
              /\ pc[p] = "acq_lock" => ENABLED AcquireLock(p)
              /\ pc[p] = "rel_lock" => ENABLED ReleaseLock(p)

\* C23's case: one probe waits for its answer while another holds the lock
\* for its pop and a third waits to release.
C23_Witness ==
    /\ pc[1] = "reading"
    /\ pc[2] = "acq_pop" /\ lock = 2
    /\ pc[3] = "rel_lock"

\* C26: the summary's success_count is the number of the batch's progress
\* events with delay_ms > 0, so it lies in 0 .. total_count; and the value a
\* progress event carries is the value collected for the tally.
C26_SuccessCountIsPositiveDelays ==
    /\ \A i \in Completes :
          /\ events[i].success_count
               = Cardinality({j \in Progresses : events[j].delay_ms > 0})
          /\ events[i].success_count >= 0
          /\ events[i].success_count <= events[i].total_count
    /\ \A k \in 1 .. Len(results) :
          /\ events[k].type = "progress"
          /\ events[k].delay_ms = results[k].delay_ms
          /\ events[k].node_name = results[k].node_name

\* C26's case: a batch of three ended with one positive delay, one delay of
\* 0 and one failure; the summary counts one success.
C26_Witness ==
    /\ bst = "done"
    /\ \E j \in Progresses : events[j].delay_ms = 25
    /\ \E j \in Progresses : events[j].delay_ms = 0
    /\ \E j \in Progresses : events[j].delay_ms = 0 - 1
    /\ \E i \in Completes : events[i].success_count = 1 /\ events[i].total_count = 3

InAcquire(p) == pc[p] \in {"acq_lock", "acq_pop", "connecting"}

\* C25: acquire_connection terminates when finitely many streams are
\* released meanwhile: every pop of an entry takes it out of the pool for
\* good, returning it or dropping it; the pop that finds the pool empty goes
\* to the one connect call, whose stream or error is what the call returns,
\* with the pool left as it was.
C25_AcquireTerminates ==
    /\ \A p \in Singles : (pc[p] = "acq_lock") ~> ~InAcquire(p)
    /\ [](DroppedConns("discard") \cap PoolConns = {})
    /\ [](\A p \in Singles : attempts[p].connects <= 1)
    /\ [][\A p \in Singles :
            (pc[p] = "acq_pop" /\ pc'[p] # "acq_pop") =>
                IF pool = << >>
                THEN pc'[p] = "connecting" /\ pool' = pool
                ELSE /\ Len(pool') = Len(pool) - 1
                     /\ \A i \in 1 .. Len(pool') : pool'[i].conn # Head(pool).conn
                     /\ \/ pc'[p] = "writing" /\ conn'[p] = Head(pool).conn
                        \/ /\ pc'[p] = "acq_lock"
                           /\ Head(pool).conn \in {d.conn : d \in dropped'}]_vars
    /\ [][\A p \in Singles :
            (pc[p] = "connecting" /\ pc'[p] # "connecting") =>
                /\ pool' = pool
                /\ \/ pc'[p] = "writing" /\ conn'[p] = nextConn
                   \/ pc'[p] = "done" /\ singleResult'[p] = <<[delay_ms |-> 0 - 1]>>]_vars
    /\ [][\A p \in Singles :
            (pc[p] # "connecting" /\ pc'[p] = "connecting") =>
                pc[p] = "acq_pop" /\ pool = << >>]_vars

\* C25's case: the request found 30 idle streams, rejected every one of
\* them, found the pool empty and holds the stream it then connected.
C25_Witness ==
    /\ pc[0] = "writing"
    /\ acq[0].src = "fresh"
    /\ pool = << >>
    /\ Cardinality(DroppedConns("discard")) = MAX_POOL_SIZE

\* C24: every batch request eventually sends its completion event: with
\* the timers firing and the tasks scheduled fairly, no probe stays in
\* flight forever whatever the peer does, every target gets its result, and
\* the batch ends.
C24_BatchTerminates ==
    /\ (bst = "running") ~> (bst = "done")
    /\ [](bst = "done" =>
            /\ Cardinality(Completes) = 1
            /\ Len(results) = Len(node_names)
            /\ InFlight = {})

\* C24's case: a full batch has ended although no probe ever got an answer:
\* each one was cut by its timer while it waited for the peer.
C24_Witness ==
    /\ bst = "done"
    /\ Len(node_names) = MaxTargets
    /\ Len(results) = MaxTargets
    /\ Cardinality(DroppedConns("timeout")) = MaxTargets
    /\ pool = << >>
====
